---- MODULE Spec2Model ----
(***************************************************************************)
(* Resource reconciliation layer of terraform-provider-influxdb: the       *)
(* Create / Read / Update / Delete / Import handlers of the five resource  *)
(* kinds (Bucket, Task, Check, NotificationEndpoint, NotificationRule).    *)
(*                                                                         *)
(* One resource instance is followed per behaviour.  `stored` is the       *)
(* Terraform state of that instance, `last` is what the most recent        *)
(* handler call did: its diagnostics, the remote calls it issued (in       *)
(* order, with the remote's answer), the request it sent and the response  *)
(* it decoded.  The remote system is not trusted: every answer it can      *)
(* give is an input of the action.  `provider` is the provider instance:   *)
(* its declared configuration, its environment and what Configure handed   *)
(* to resources and data sources.  `reconciler` holds the fields of a      *)
(* resource object (r.client, r.org) and `instances` the resource          *)
(* instances whose handlers run interleaved on it, each with its own       *)
(* Terraform state and call-local variables.                               *)
(***************************************************************************)
EXTENDS Integers, Sequences, FiniteSets, TLC

VARIABLES kind, stored, last, provider, reconciler, instances

vars == <<kind, stored, last, provider, reconciler, instances>>

Kinds == {"bucket", "task", "check", "endpoint", "rule"}

(***************************************************************************)
(* Bounds of the model.                                                    *)
(***************************************************************************)
\* Server timestamps are drawn from the seconds 1..MaxTime.
MaxTime == 2

(***************************************************************************)
(* terraform-plugin-framework attribute values (types.String, types.Int64) *)
(* and Go pointers.  An attribute is null, unknown or known; ValueString   *)
(* of a null or unknown attribute is the zero value.                       *)
(***************************************************************************)
StringNull == [k |-> "null", v |-> ""]
StringUnknown == [k |-> "unknown", v |-> ""]
StringValue(s) == [k |-> "value", v |-> s]
IsNull(a) == a.k = "null"
ValueString(a) == IF a.k = "value" THEN a.v ELSE ""

Nil == [k |-> "null", v |-> ""]
Ptr(x) == [k |-> "value", v |-> x]
IsNil(p) == p.k = "null"
Deref(p) == p.v

\* The provider-level default organization handed over by Configure (r.org).
ProviderOrg == "deforg"
\* The organization ID the remote resolves a name to (*org.Id).
OrgId == "oid1"
\* What the caller may declare as organization reference.
OrgRefs == {StringNull, StringValue("org1")}
\* Names the remote may report for an organization ID.
OrgNames == {"org1", ProviderOrg}

\* HTTP status codes the handlers compare against (net/http constants).
StatusOK == 200
StatusCreated == 201
StatusNoContent == 204
StatusNotFound == 404
\* A server failure, and 0 for a transport failure (no response at all).
StatusServerError == 500
TransportError == 0

\* One remote call of a handler: which endpoint, and the remote's answer.
Call(api, status) == [api |-> api, status |-> status]

\* The SDK (influxdb-client-go) returns a non-nil error for every answer
\* that is not a success, 404 included.
SdkErr(status) == status # StatusOK

\* Placeholder for "no plan / no request / no response" in a call record.
NoData == [none |-> TRUE]

\* The record of a finished handler call.
Outcome(state, op, err, warn, calls, plan, req, resp) ==
    [state |-> state,
     last |-> [op |-> op, err |-> err, warn |-> warn, calls |-> calls,
               plan |-> plan, req |-> req, resp |-> resp]]

\* A lookup (organization, current user) whose error ends the call:
\* `if err != nil { resp.Diagnostics.AddError(...); return }`.
LookupFailedIgnored(status) == FALSE

LookupFailed(status) == SdkErr(status)

Absent(nullDoc) == [exists |-> FALSE, doc |-> nullDoc]
Present(doc) == [exists |-> TRUE, doc |-> doc]

(***************************************************************************)
(* Server timestamps (time.Time) and their formatting.                     *)
(***************************************************************************)
Times == {[s |-> i, ns |-> i % 2] : i \in 1..MaxTime}
NilTime == [k |-> "null", v |-> [s |-> 0, ns |-> 0]]
TimePtrs == {NilTime} \cup {Ptr(t) : t \in Times}

\* t.Format("2006-01-02T15:04:05Z07:00"): second precision, the fraction
\* of a second is dropped.
FormatTime(t) == [rfc3339 |-> t.s]

(***************************************************************************)
(* Flux text.  A query is a sequence of lexical pieces: OPT is the text    *)
(* `option task =`, LB and RB are braces, WS is white space, BODY is a     *)
(* piece of the caller's query.                                           *)
(***************************************************************************)
OPT == "option task ="
LB == "{"
RB == "}"
WS == " "
BODY == "from(bucket)"

PlainFlux == <<BODY>>
PreambleFlux == <<OPT, WS, LB, LB, RB, RB, WS, BODY>>

\* Query texts the remote may return.
RemoteFluxes == {PlainFlux, PreambleFlux}

(***************************************************************************)
(* Task                                                                    *)
(***************************************************************************)
NullTask ==
    [id |-> StringNull, name |-> StringNull, org |-> StringNull,
     description |-> StringNull, flux |-> StringNull, status |-> StringNull,
     every |-> StringNull, cron |-> StringNull, offset |-> StringNull,
     created_at |-> StringNull, updated_at |-> StringNull]

\* Declared (every, cron) pairs: absent, empty and set.
Schedules ==
    {<<StringNull, StringNull>>, <<StringValue(""), StringValue("")>>,
     <<StringNull, StringValue("")>>, <<StringValue("1h"), StringValue("0 * * * *")>>,
     <<StringValue("1h"), StringNull>>, <<StringValue(""), StringValue("0 * * * *")>>}

\* Desired Task documents.  Computed-only attributes are unknown in a plan.
TaskPlans ==
    {[id |-> StringUnknown, name |-> StringValue("t1"), org |-> of[1],
      description |-> StringNull, flux |-> StringValue(of[2]), status |-> StringNull,
      every |-> sch[1], cron |-> sch[2], offset |-> StringNull,
      created_at |-> StringUnknown, updated_at |-> StringUnknown] :
        of \in {<<StringNull, PlainFlux>>, <<StringValue("org1"), PreambleFlux>>},
        sch \in Schedules}

\* domain.Task records the remote may answer with.
TaskResponses ==
    [Id : {"id1"}, Name : {"t1"}, OrgID : {OrgId}, Flux : RemoteFluxes,
     Description : {Nil}, Status : {Ptr("active")}, Every : {Ptr("1h")},
     Cron : {Nil}, Offset : {Nil}, CreatedAt : TimePtrs, UpdatedAt : TimePtrs]

validateSchedulingBothAllowed(data) ==
    LET hasEvery == ~IsNull(data.every) /\ ValueString(data.every) # ""
        hasCron == ~IsNull(data.cron) /\ ValueString(data.cron) # ""
    IN  hasEvery \/ hasCron

validateScheduling(data) ==
    LET hasEvery == ~IsNull(data.every) /\ ValueString(data.every) # ""
        hasCron == ~IsNull(data.cron) /\ ValueString(data.cron) # ""
    IN  IF ~hasEvery /\ ~hasCron THEN FALSE
        ELSE IF hasEvery /\ hasCron THEN FALSE
        ELSE TRUE

OptString(p) == IF ~IsNil(p) THEN StringValue(Deref(p)) ELSE StringNull

TaskSetComputedFields(data, task) ==
    [data EXCEPT
       !.id = StringValue(task.Id),
       !.name = StringValue(task.Name),
       !.description = OptString(task.Description),
       !.status = IF ~IsNil(task.Status) THEN StringValue(Deref(task.Status))
                  ELSE StringValue("active"),
       !.every = OptString(task.Every),
       !.cron = OptString(task.Cron),
       !.offset = OptString(task.Offset),
       !.created_at = IF ~IsNil(task.CreatedAt)
                      THEN StringValue(FormatTime(Deref(task.CreatedAt)))
                      ELSE StringNull,
       !.updated_at = IF ~IsNil(task.UpdatedAt)
                      THEN StringValue(FormatTime(Deref(task.UpdatedAt)))
                      ELSE StringNull]

OptPtr(a) == IF ~IsNull(a) THEN Ptr(ValueString(a)) ELSE Nil

OrgNameResolved(data) == OrgId

\* The organization a Create resolves: the declared one, else the provider's.
OrgNameOf(data) == IF ~IsNull(data.org) THEN ValueString(data.org) ELSE ProviderOrg

TaskUpdateRequest(data) ==
    [Id |-> ValueString(data.id), Name |-> ValueString(data.name),
     Flux |-> ValueString(data.flux),
     Description |-> OptPtr(data.description),
     Status |-> OptPtr(data.status),
     Every |-> OptPtr(data.every), Cron |-> OptPtr(data.cron),
     Offset |-> OptPtr(data.offset)]

TaskCreateRequest(data) ==
    [Name |-> ValueString(data.name), OrgID |-> OrgId,
     Flux |-> ValueString(data.flux),
     Description |-> OptPtr(data.description),
     Status |-> Ptr(IF ~IsNull(data.status) THEN ValueString(data.status) ELSE "active"),
     Every |-> OptPtr(data.every), Cron |-> OptPtr(data.cron),
     Offset |-> OptPtr(data.offset)]

\* resp.State.SetAttribute(path.Root("id"), req.ID)
ImportState(nullDoc, id) == Present([nullDoc EXCEPT !.id = StringValue(id)])

\* Answers drawn for a lookup, for a fetch or delete by ID, for a mutation.
LookupStatuses == {StatusOK, StatusNotFound}
ByIdStatuses == {StatusOK, StatusNotFound, StatusServerError}
MutationStatuses == {StatusOK, StatusServerError}


Apply(r) ==
    /\ stored' = r.state /\ last' = r.last
    /\ UNCHANGED <<kind, provider, reconciler, instances>>

\* An early return after AddError: resp.State is not set, so the stored
\* state stays what the runtime passed in.
FailedWritesPlan(op, warn, calls, plan, req) ==
    Outcome(IF plan # NoData THEN Present(plan) ELSE stored,
            op, TRUE, warn, calls, plan, req, NoData)

Failed(op, warn, calls, plan, req) ==
    Outcome(stored, op, TRUE, warn, calls, plan, req, NoData)

(***************************************************************************)
(* Actions: one per handler.  A remote answer is drawn only when the       *)
(* handler reaches the call.                                               *)
(***************************************************************************)
TaskCreate ==
    /\ kind = "task" /\ ~stored.exists
    /\ \E plan \in TaskPlans :
         IF ~validateScheduling(plan)
         THEN Apply(Failed("Create", FALSE, <<>>, plan, NoData))
         ELSE \E orgStatus \in LookupStatuses :
           LET orgCall == Call("FindOrganizationByName", orgStatus)
               task == TaskCreateRequest(plan)
           IN  IF LookupFailed(orgStatus)
               THEN Apply(Failed("Create", FALSE, <<orgCall>>, plan, NoData))
               ELSE \E status \in MutationStatuses :
                 LET mutCall == Call("CreateTask", status)
                 IN  IF SdkErr(status)
                     THEN Apply(Failed("Create", FALSE, <<orgCall, mutCall>>, plan, task))
                     ELSE \E createdTask \in TaskResponses :
                       LET data == TaskSetComputedFields(
                                     [plan EXCEPT !.org = StringValue(OrgNameOf(plan))],
                                     createdTask)
                       IN  Apply(Outcome(Present(data), "Create", FALSE, FALSE,
                                         <<orgCall, mutCall>>, plan, task, createdTask))

TaskRead ==
    /\ kind = "task" /\ stored.exists
    /\ \E status \in ByIdStatuses :
         LET getCall == Call("GetTaskByID", status)
             req == [Id |-> ValueString(stored.doc.id)]
         IN  IF SdkErr(status)
             THEN Apply(Failed("Read", FALSE, <<getCall>>, NoData, req))
             ELSE \E task \in TaskResponses, orgStatus \in LookupStatuses :
               LET orgCall == Call("FindOrganizationByID", orgStatus)
               IN  IF LookupFailed(orgStatus)
                   THEN Apply(Failed("Read", FALSE, <<getCall, orgCall>>, NoData, req))
                   ELSE \E orgName \in OrgNames :
                     LET data == TaskSetComputedFields(
                                   [stored.doc EXCEPT !.flux = StringValue(task.Flux),
                                                      !.org = StringValue(orgName)],
                                   task)
                     IN  Apply(Outcome(Present(data), "Read", FALSE, FALSE,
                                       <<getCall, orgCall>>, NoData, req, task))

TaskUpdate ==
    /\ kind = "task" /\ stored.exists
    /\ \E plan \in TaskPlans :
         IF ~validateScheduling(plan)
         THEN Apply(Failed("Update", FALSE, <<>>, plan, NoData))
         ELSE \E status \in MutationStatuses :
           LET task == TaskUpdateRequest(plan)
               mutCall == Call("UpdateTask", status)
           IN  IF SdkErr(status)
               THEN Apply(Failed("Update", FALSE, <<mutCall>>, plan, task))
               ELSE \E updatedTask \in TaskResponses :
                 LET data == TaskSetComputedFields(
                               [plan EXCEPT !.flux = StringValue(updatedTask.Flux)],
                               updatedTask)
                 IN  Apply(Outcome(Present(data), "Update", FALSE, FALSE, <<mutCall>>,
                                   plan, task, updatedTask))

TaskDelete ==
    /\ kind = "task" /\ stored.exists
    /\ \E status \in ByIdStatuses :
         LET delCall == Call("DeleteTask", status)
             req == [Id |-> ValueString(stored.doc.id)]
         IN  IF SdkErr(status)
             THEN Apply(Failed("Delete", FALSE, <<delCall>>, NoData, req))
             ELSE Apply(Outcome(Absent(NullTask), "Delete", FALSE, FALSE, <<delCall>>,
                                NoData, req, NoData))

TaskImportState ==
    /\ kind = "task" /\ ~stored.exists
    /\ \E id \in {"id1"} :
         Apply(Outcome(ImportState(NullTask, id), "Import", FALSE, FALSE, <<>>,
                       NoData, NoData, NoData))

(***************************************************************************)
(* Bucket                                                                  *)
(***************************************************************************)
Int64Null == [k |-> "null", v |-> 0]
Int64Value(i) == [k |-> "value", v |-> i]
ValueInt64(a) == IF a.k = "value" THEN a.v ELSE 0

NullBucket ==
    [id |-> StringNull, name |-> StringNull, org |-> StringNull,
     description |-> StringNull, retention_seconds |-> Int64Null]

\* Declared retention: absent, infinite, one week and (the schema has no
\* validator) a negative number.
RetentionInputs == {Int64Null, Int64Value(0), Int64Value(604800), Int64Value(-1)}

BucketPlans ==
    {[id |-> StringUnknown, name |-> StringValue("b1"), org |-> o,
      description |-> d, retention_seconds |-> rs] :
        o \in OrgRefs, d \in {StringNull, StringValue("d")}, rs \in RetentionInputs}

RemoteRetentionRules ==
    {<<>>, <<[EverySeconds |-> 0]>>, <<[EverySeconds |-> 604800]>>,
     <<[EverySeconds |-> 604800], [EverySeconds |-> 0]>>}

\* domain.Bucket records the remote may answer with.
BucketResponses ==
    [Id : {Ptr("id1")}, Name : {"b1"}, OrgID : {Ptr(OrgId)},
     Description : {Nil, Ptr("d")}, RetentionRules : RemoteRetentionRules]

setRetentionSecondsKeepsDeclared(data, retentionRules) ==
    IF Len(retentionRules) > 0
    THEN [data EXCEPT !.retention_seconds = Int64Value(retentionRules[1].EverySeconds)]
    ELSE data

setRetentionSecondsFromRules(data, retentionRules) ==
    IF Len(retentionRules) > 0
    THEN [data EXCEPT !.retention_seconds = Int64Value(retentionRules[1].EverySeconds)]
    ELSE [data EXCEPT !.retention_seconds = Int64Value(0)]

prepareRetentionRules(data) ==
    LET retentionSeconds == IF ~IsNull(data.retention_seconds)
                            THEN ValueInt64(data.retention_seconds) ELSE 0
    IN  <<[EverySeconds |-> retentionSeconds]>>

\* setDescriptionOnBucket: the description pointer stays nil when undeclared.
setDescriptionOnBucket(data, bucket) ==
    IF ~IsNull(data.description)
    THEN [bucket EXCEPT !.Description = Ptr(ValueString(data.description))]
    ELSE bucket

\* ValueStringPointer: nil for null, else a pointer to the (zero) value.
ValueStringPointer(a) == IF IsNull(a) THEN Nil ELSE Ptr(ValueString(a))

\* What each Bucket handler puts into the state from the remote's record.
BucketCreateState(data, orgName, createdBucket) ==
    setRetentionSecondsFromRules(
        [data EXCEPT
           !.id = StringValue(Deref(createdBucket.Id)),
           !.name = StringValue(createdBucket.Name),
           !.org = StringValue(orgName),
           !.description = IF ~IsNil(createdBucket.Description)
                           THEN StringValue(Deref(createdBucket.Description))
                           ELSE @],
        createdBucket.RetentionRules)

BucketReadState(data, orgName, bucket) ==
    setRetentionSecondsFromRules(
        [data EXCEPT
           !.name = StringValue(bucket.Name),
           !.org = StringValue(orgName),
           !.description = OptString(bucket.Description)],
        bucket.RetentionRules)

BucketUpdateState(data, updatedBucket) ==
    setRetentionSecondsFromRules(
        [data EXCEPT
           !.name = StringValue(updatedBucket.Name),
           !.description = IF ~IsNil(updatedBucket.Description)
                           THEN StringValue(Deref(updatedBucket.Description))
                           ELSE @],
        updatedBucket.RetentionRules)

BucketCreate ==
    /\ kind = "bucket" /\ ~stored.exists
    /\ \E plan \in BucketPlans, orgStatus \in LookupStatuses :
         LET orgName == OrgNameOf(plan)
             orgCall == Call("FindOrganizationByName", orgStatus)
             bucket == setDescriptionOnBucket(plan,
                         [Name |-> ValueString(plan.name), OrgID |-> Ptr(OrgId),
                          RetentionRules |-> prepareRetentionRules(plan),
                          Description |-> Nil])
         IN  IF LookupFailed(orgStatus)
             THEN Apply(Failed("Create", FALSE, <<orgCall>>, plan, NoData))
             ELSE \E status \in MutationStatuses :
               LET mutCall == Call("CreateBucket", status)
               IN  IF SdkErr(status)
                   THEN Apply(Failed("Create", FALSE, <<orgCall, mutCall>>, plan, bucket))
                   ELSE \E createdBucket \in BucketResponses :
                     LET data == BucketCreateState(plan, orgName, createdBucket)
                     IN  Apply(Outcome(Present(data), "Create", FALSE, FALSE,
                                       <<orgCall, mutCall>>, plan, bucket,
                                       createdBucket))

BucketRead ==
    /\ kind = "bucket" /\ stored.exists
    /\ \E status \in ByIdStatuses :
         LET getCall == Call("FindBucketByID", status)
             req == [Id |-> ValueString(stored.doc.id)]
         IN  IF SdkErr(status)
             THEN Apply(Failed("Read", FALSE, <<getCall>>, NoData, req))
             ELSE \E bucket \in BucketResponses, orgStatus \in LookupStatuses :
               LET orgCall == Call("FindOrganizationByID", orgStatus)
               IN  IF LookupFailed(orgStatus)
                   THEN Apply(Failed("Read", FALSE, <<getCall, orgCall>>, NoData, req))
                   ELSE \E orgName \in OrgNames :
                     LET data == BucketReadState(stored.doc, orgName, bucket)
                     IN  Apply(Outcome(Present(data), "Read", FALSE, FALSE,
                                       <<getCall, orgCall>>, NoData, req, bucket))

BucketUpdate ==
    /\ kind = "bucket" /\ stored.exists
    /\ \E plan \in BucketPlans, status \in MutationStatuses :
         LET bucket == setDescriptionOnBucket(plan,
                         [Id |-> ValueStringPointer(plan.id),
                          Name |-> ValueString(plan.name),
                          RetentionRules |-> prepareRetentionRules(plan),
                          Description |-> Nil])
             mutCall == Call("UpdateBucket", status)
         IN  IF SdkErr(status)
             THEN Apply(Failed("Update", FALSE, <<mutCall>>, plan, bucket))
             ELSE \E updatedBucket \in BucketResponses :
               LET data == BucketUpdateState(plan, updatedBucket)
               IN  Apply(Outcome(Present(data), "Update", FALSE, FALSE, <<mutCall>>,
                                 plan, bucket, updatedBucket))

BucketDelete ==
    /\ kind = "bucket" /\ stored.exists
    /\ \E status \in ByIdStatuses :
         LET delCall == Call("DeleteBucket", status)
             req == [Id |-> ValueStringPointer(stored.doc.id)]
         IN  IF SdkErr(status)
             THEN Apply(Failed("Delete", FALSE, <<delCall>>, NoData, req))
             ELSE Apply(Outcome(Absent(NullBucket), "Delete", FALSE, FALSE,
                                <<delCall>>, NoData, req, NoData))

BucketImportState ==
    /\ kind = "bucket" /\ ~stored.exists
    /\ \E id \in {"id1"} :
         Apply(Outcome(ImportState(NullBucket, id), "Import", FALSE, FALSE, <<>>,
                       NoData, NoData, NoData))

(***************************************************************************)
(* Raw HTTP (Check, NotificationEndpoint, NotificationRule).  An answer is *)
(* a status (TransportError: the request failed and there is no response)  *)
(* and a body; a body either decodes as JSON into a response record or     *)
(* does not, and its text may or may not contain the digits "404".         *)
(***************************************************************************)
HttpStatuses ==
    {TransportError, StatusOK, StatusCreated, StatusNoContent, StatusNotFound,
     StatusServerError}

JsonBody(rec) == [json |-> TRUE, has404 |-> FALSE, rec |-> rec]
BadBody == [json |-> FALSE, has404 |-> FALSE, rec |-> NoData]
BadBody404 == [json |-> FALSE, has404 |-> TRUE, rec |-> NoData]
ErrorBodies == {BadBody, BadBody404}

\* The server URL handed over by Configure (r.serverURL); no "404" in it.
ServerURL == [text |-> "http://influx:8086", has404 |-> FALSE]

(***************************************************************************)
(* Check                                                                   *)
(***************************************************************************)
BoolNull == [k |-> "null", v |-> FALSE]
BoolValue(b) == [k |-> "value", v |-> b]
ValueBool(a) == IF a.k = "value" THEN a.v ELSE FALSE
Float64Value(x) == [k |-> "value", v |-> x]
ValueFloat64(a) == IF a.k = "value" THEN a.v ELSE 0

NullCheck ==
    [id |-> StringNull, name |-> StringNull, org |-> StringNull,
     description |-> StringNull, query |-> StringNull, status |-> StringNull,
     every |-> StringNull, offset |-> StringNull,
     status_message_template |-> StringNull, type |-> StringNull,
     thresholds |-> <<>>, created_at |-> StringNull, updated_at |-> StringNull]

ThresholdModel(t, x, lv, av) ==
    [type |-> StringValue(t), value |-> Float64Value(x), level |-> StringValue(lv),
     all_values |-> av]

\* Declared threshold lists.
PlanThresholds ==
    {<<>>,
     <<ThresholdModel("greater", 80, "WARN", BoolValue(FALSE)),
       ThresholdModel("lesser", 5, "CRIT", BoolNull)>>}

\* Declared (status, offset): both absent, both set.
CheckStatusOffsets ==
    {<<StringNull, StringNull>>, <<StringValue("inactive"), StringValue("5s")>>}

CheckPlans ==
    {[id |-> StringUnknown, name |-> StringValue("c1"), org |-> o,
      description |-> StringNull, query |-> StringValue("q"), status |-> so[1],
      every |-> StringValue("1m"), offset |-> so[2],
      status_message_template |-> StringNull, type |-> StringValue("threshold"),
      thresholds |-> th, created_at |-> StringUnknown,
      updated_at |-> StringUnknown] :
        o \in OrgRefs, so \in CheckStatusOffsets, th \in PlanThresholds}

CheckThreshold(av, lv, x, t) == [AllValues |-> av, Level |-> lv, Value |-> x, Type |-> t]

RemoteThresholds ==
    {<<>>,
     <<CheckThreshold(Ptr(FALSE), "WARN", 80, "greater"),
       CheckThreshold(Ptr(FALSE), "CRIT", 5, "lesser")>>,
     <<CheckThreshold(Nil, "CRIT", 5, "lesser"),
       CheckThreshold(Ptr(TRUE), "WARN", 80, "greater")>>}

\* CheckAPI records the remote may answer with.
CheckResponses ==
    {[ID |-> Ptr("id1"), Name |-> "c1", OrgID |-> OrgId, Description |-> Nil,
      Query |-> [Text |-> "q"], Status |-> "active", Every |-> "1m",
      Offset |-> "0s", StatusMessageTemplate |-> Nil, Thresholds |-> th,
      Type |-> "threshold",
      CreatedAt |-> IF th = <<>> THEN Nil ELSE Ptr("2025-01-01T00:00:00Z"),
      UpdatedAt |-> IF th = <<>> THEN Nil ELSE Ptr("2025-01-02T00:00:00Z")] :
        th \in RemoteThresholds}

CheckBodies == {BadBody} \cup {JsonBody(c) : c \in CheckResponses}

\* makeHTTPRequest: the error it returns, or none.  The error text of a
\* failed request carries the URL; that of a status outside 200..299
\* carries the status and the raw body.
NoError == [failed |-> FALSE, has404 |-> FALSE]
makeHTTPRequest(endpointHas404, status, body) ==
    IF status = TransportError
    THEN [failed |-> TRUE, has404 |-> ServerURL.has404 \/ endpointHas404]
    ELSE IF status < 200 \/ status >= 300
    THEN [failed |-> TRUE, has404 |-> status = 404 \/ body.has404]
    ELSE NoError

CheckSetComputedFields(data, check) ==
    [data EXCEPT
       !.id = StringValue(Deref(check.ID)),
       !.name = StringValue(check.Name),
       !.description = OptString(check.Description),
       !.query = StringValue(check.Query.Text),
       !.status = StringValue(check.Status),
       !.every = StringValue(check.Every),
       !.offset = StringValue(check.Offset),
       !.type = StringValue(check.Type),
       !.status_message_template = OptString(check.StatusMessageTemplate),
       !.thresholds =
           [i \in 1..Len(check.Thresholds) |->
              LET threshold == check.Thresholds[i]
                  allValues == IF ~IsNil(threshold.AllValues)
                               THEN Deref(threshold.AllValues) ELSE FALSE
              IN  [type |-> StringValue(threshold.Type),
                   value |-> Float64Value(threshold.Value),
                   level |-> StringValue(threshold.Level),
                   all_values |-> BoolValue(allValues)]],
       !.created_at = OptString(check.CreatedAt),
       !.updated_at = OptString(check.UpdatedAt)]

CheckBuildThresholdsOmitAbsent(data) ==
    [i \in 1..Len(data.thresholds) |->
       LET threshold == data.thresholds[i]
       IN  CheckThreshold(IF threshold.all_values.k = "value"
                          THEN Ptr(ValueBool(threshold.all_values)) ELSE Nil,
                          ValueString(threshold.level),
                          ValueFloat64(threshold.value),
                          ValueString(threshold.type))]

CheckBuildThresholds(data) ==
    [i \in 1..Len(data.thresholds) |->
       LET threshold == data.thresholds[i]
       IN  CheckThreshold(Ptr(ValueBool(threshold.all_values)),
                          ValueString(threshold.level),
                          ValueFloat64(threshold.value),
                          ValueString(threshold.type))]

CheckCreatePayloadNoDefaults(data) ==
    [Name |-> ValueString(data.name), OrgID |-> OrgId,
     Query |-> [Text |-> ValueString(data.query)],
     Status |-> ValueString(data.status),
     Every |-> ValueString(data.every),
     Offset |-> ValueString(data.offset),
     Type |-> ValueString(data.type),
     Thresholds |-> CheckBuildThresholds(data),
     Description |-> OptPtr(data.description),
     StatusMessageTemplate |-> OptPtr(data.status_message_template)]

CheckCreatePayload(data) ==
    [Name |-> ValueString(data.name), OrgID |-> OrgId,
     Query |-> [Text |-> ValueString(data.query)],
     Status |-> IF ~IsNull(data.status) THEN ValueString(data.status) ELSE "active",
     Every |-> ValueString(data.every),
     Offset |-> IF ~IsNull(data.offset) THEN ValueString(data.offset) ELSE "0s",
     Type |-> ValueString(data.type),
     Thresholds |-> CheckBuildThresholds(data),
     Description |-> OptPtr(data.description),
     StatusMessageTemplate |-> OptPtr(data.status_message_template)]

CheckUpdatePayload(data) ==
    [ID |-> ValueStringPointer(data.id),
     Name |-> ValueString(data.name), OrgID |-> "",
     Query |-> [Text |-> ValueString(data.query)],
     Status |-> ValueString(data.status),
     Every |-> ValueString(data.every),
     Offset |-> ValueString(data.offset),
     Type |-> ValueString(data.type),
     Thresholds |-> CheckBuildThresholds(data),
     Description |-> OptPtr(data.description),
     StatusMessageTemplate |-> OptPtr(data.status_message_template)]

CheckCreate ==
    /\ kind = "check" /\ ~stored.exists
    /\ \E plan \in CheckPlans, orgStatus \in LookupStatuses :
         LET orgName == OrgNameOf(plan)
             orgCall == Call("FindOrganizationByName", orgStatus)
             checkPayload == CheckCreatePayload(plan)
         IN  IF LookupFailed(orgStatus)
             THEN Apply(Failed("Create", FALSE, <<orgCall>>, plan, NoData))
             ELSE \E status \in HttpStatuses :
               LET mutCall == Call("POST /api/v2/checks", status)
               IN  IF makeHTTPRequest(FALSE, status, BadBody).failed
                   THEN Apply(Failed("Create", TRUE, <<orgCall, mutCall>>, plan, checkPayload))
                   ELSE \E respBody \in CheckBodies :
                     IF ~respBody.json
                     THEN Apply(Failed("Create", TRUE, <<orgCall, mutCall>>, plan, checkPayload))
                     ELSE LET createdCheck == respBody.rec
                              data == CheckSetComputedFields(
                                        [plan EXCEPT !.org = StringValue(orgName)],
                                        createdCheck)
                          IN  Apply(Outcome(Present(data), "Create", FALSE, TRUE,
                                            <<orgCall, mutCall>>, plan, checkPayload,
                                            createdCheck))

CheckRead ==
    /\ kind = "check" /\ stored.exists
    /\ \E status \in HttpStatuses :
         LET getCall == Call("GET /api/v2/checks/:id", status)
             req == [Id |-> ValueString(stored.doc.id)]
         IN  IF makeHTTPRequest(FALSE, status, BadBody).failed
             THEN Apply(Failed("Read", FALSE, <<getCall>>, NoData, req))
             ELSE \E respBody \in CheckBodies :
               IF ~respBody.json
               THEN Apply(Failed("Read", FALSE, <<getCall>>, NoData, req))
               ELSE \E orgStatus \in LookupStatuses :
                 LET check == respBody.rec
                     orgCall == Call("FindOrganizationByID", orgStatus)
                 IN  IF LookupFailed(orgStatus)
                     THEN Apply(Failed("Read", FALSE, <<getCall, orgCall>>, NoData, req))
                     ELSE \E orgName \in OrgNames :
                       LET data == CheckSetComputedFields(
                                     [stored.doc EXCEPT !.org = StringValue(orgName)],
                                     check)
                       IN  Apply(Outcome(Present(data), "Read", FALSE, FALSE,
                                         <<getCall, orgCall>>, NoData, req, check))

CheckUpdate ==
    /\ kind = "check" /\ stored.exists
    /\ \E plan \in CheckPlans, status \in HttpStatuses :
         LET checkPayload == CheckUpdatePayload(plan)
             mutCall == Call("PATCH /api/v2/checks/:id", status)
         IN  IF makeHTTPRequest(FALSE, status, BadBody).failed
             THEN Apply(Failed("Update", TRUE, <<mutCall>>, plan, checkPayload))
             ELSE \E respBody \in CheckBodies :
               IF ~respBody.json
               THEN Apply(Failed("Update", TRUE, <<mutCall>>, plan, checkPayload))
               ELSE LET updatedCheck == respBody.rec
                        data == CheckSetComputedFields(plan, updatedCheck)
                    IN  Apply(Outcome(Present(data), "Update", FALSE, TRUE,
                                      <<mutCall>>, plan, checkPayload, updatedCheck))

\* Delete succeeds when the request succeeds or the error text contains "404".
CheckDelete ==
    /\ kind = "check" /\ stored.exists
    /\ \E status \in HttpStatuses, body \in ErrorBodies :
         LET delCall == Call("DELETE /api/v2/checks/:id", status)
             req == [Id |-> ValueString(stored.doc.id)]
             err == makeHTTPRequest(FALSE, status, body)
         IN  IF err.failed /\ ~err.has404
             THEN Apply(Outcome(stored, "Delete", TRUE, FALSE, <<delCall>>,
                                NoData, req, body))
             ELSE Apply(Outcome(Absent(NullCheck), "Delete", FALSE, FALSE,
                                <<delCall>>, NoData, req, body))

CheckImportState ==
    /\ kind = "check" /\ ~stored.exists
    /\ \E id \in {"id1"} :
         Apply(Outcome(ImportState(NullCheck, id), "Import", FALSE, FALSE, <<>>,
                       NoData, NoData, NoData))

(***************************************************************************)
(* NotificationEndpoint                                                    *)
(***************************************************************************)
\* types.Map: null, or a known map given as its set of <<key, value>> pairs.
MapNull == [k |-> "null", v |-> {}]
MapValueFrom(m) == [k |-> "value", v |-> m]

NullEndpoint ==
    [id |-> StringNull, name |-> StringNull, org |-> StringNull,
     description |-> StringNull, status |-> StringNull, type |-> StringNull,
     url |-> StringNull, token |-> StringNull, username |-> StringNull,
     password |-> StringNull, method |-> StringNull, auth_method |-> StringNull,
     headers |-> MapNull]

\* Declared optional attributes: none of them, or all of them.
EndpointOptions ==
    {[status |-> StringNull, token |-> StringNull, username |-> StringNull,
      password |-> StringNull, method |-> StringNull, auth_method |-> StringNull,
      headers |-> MapNull],
     [status |-> StringValue("inactive"), token |-> StringValue("tok"),
      username |-> StringValue("user"), password |-> StringValue("pw"),
      method |-> StringValue("PUT"), auth_method |-> StringValue("bearer"),
      headers |-> MapValueFrom({<<"X-A", "1">>})]}

EndpointPlans ==
    {[id |-> StringUnknown, name |-> StringValue("e1"), org |-> o,
      description |-> StringNull, status |-> opt.status,
      type |-> StringValue("http"), url |-> StringValue("http://hook"),
      token |-> opt.token, username |-> opt.username, password |-> opt.password,
      method |-> opt.method, auth_method |-> opt.auth_method,
      headers |-> opt.headers] :
        o \in OrgRefs, opt \in EndpointOptions}

\* NotificationEndpointResponse records the remote may answer with.
EndpointResponses ==
    {[ID |-> "id1", Name |-> "e1", Description |-> Nil, Status |-> "active",
      Type |-> "http", URL |-> "http://hook", Token |-> sec[1],
      Username |-> sec[2], Password |-> sec[3], Method |-> "POST",
      AuthMethod |-> am, Headers |-> h, OrgID |-> OrgId] :
        sec \in {<<Nil, Nil, Nil>>,
                 <<Ptr("remote-tok"), Ptr("remote-user"), Ptr("remote-pw")>>},
        am \in {"", "none"}, h \in {{}, {<<"X-B", "2">>}}}

EndpointBodies == {BadBody} \cup {JsonBody(e) : e \in EndpointResponses}

EndpointCreateRequestForwarding(data) ==
    [Name |-> ValueString(data.name), Type |-> ValueString(data.type),
     URL |-> ValueString(data.url),
     Status |-> IF ~IsNull(data.status) THEN ValueString(data.status) ELSE "active",
     Method |-> IF ~IsNull(data.method) THEN ValueString(data.method) ELSE "POST",
     AuthMethod |-> IF ~IsNull(data.auth_method) THEN ValueString(data.auth_method)
                    ELSE "none",
     OrgID |-> OrgId]

EndpointCreateRequest(data) ==
    [Name |-> ValueString(data.name), Type |-> ValueString(data.type),
     URL |-> ValueString(data.url), Status |-> "active", Method |-> "POST",
     AuthMethod |-> "none", OrgID |-> OrgId]

EndpointUpdateRequest(data) ==
    [Name |-> ValueString(data.name), Type |-> ValueString(data.type),
     URL |-> ValueString(data.url),
     Status |-> IF ~IsNull(data.status) THEN ValueString(data.status) ELSE "active",
     Method |-> IF ~IsNull(data.method) THEN ValueString(data.method) ELSE "POST",
     AuthMethod |-> IF ~IsNull(data.auth_method) THEN ValueString(data.auth_method)
                    ELSE "none",
     OrgID |-> OrgId]

\* What each handler puts into the state from a parsed response.
EndpointCreateState(data, org, endpoint) ==
    [data EXCEPT
       !.id = StringValue(endpoint.ID),
       !.org = StringValue(org),
       !.status = StringValue(endpoint.Status),
       !.method = StringValue(endpoint.Method),
       !.auth_method = StringValue(endpoint.AuthMethod)]

EndpointReadStateWithSecrets(data, endpoint) ==
    [data EXCEPT
       !.name = StringValue(endpoint.Name),
       !.description =
           IF ~IsNil(endpoint.Description)
           THEN StringValue(Deref(endpoint.Description)) ELSE @,
       !.status = StringValue(endpoint.Status),
       !.type = StringValue(endpoint.Type),
       !.url = StringValue(endpoint.URL),
       !.token = IF ~IsNil(endpoint.Token)
                 THEN StringValue(Deref(endpoint.Token)) ELSE @,
       !.password = IF ~IsNil(endpoint.Password)
                    THEN StringValue(Deref(endpoint.Password)) ELSE @,
       !.method = StringValue(endpoint.Method),
       !.auth_method =
           IF endpoint.AuthMethod # ""
           THEN StringValue(endpoint.AuthMethod) ELSE @,
       !.headers =
           IF Cardinality(endpoint.Headers) > 0
           THEN MapValueFrom(endpoint.Headers) ELSE @]

EndpointReadState(data, endpoint) ==
    [data EXCEPT
       !.name = StringValue(endpoint.Name),
       !.description =
           IF ~IsNil(endpoint.Description)
           THEN StringValue(Deref(endpoint.Description)) ELSE @,
       !.status = StringValue(endpoint.Status),
       !.type = StringValue(endpoint.Type),
       !.url = StringValue(endpoint.URL),
       !.method = StringValue(endpoint.Method),
       !.auth_method =
           IF endpoint.AuthMethod # ""
           THEN StringValue(endpoint.AuthMethod) ELSE @,
       !.headers =
           IF Cardinality(endpoint.Headers) > 0
           THEN MapValueFrom(endpoint.Headers) ELSE @]

EndpointUpdateState(data, endpoint) ==
    [data EXCEPT
       !.status = StringValue(endpoint.Status),
       !.method = StringValue(endpoint.Method),
       !.auth_method = StringValue(endpoint.AuthMethod)]

EndpointCreate ==
    /\ kind = "endpoint" /\ ~stored.exists
    /\ \E plan \in EndpointPlans, orgStatus \in LookupStatuses :
         LET org == OrgNameOf(plan)
             orgCall == Call("FindOrganizationByName", orgStatus)
             endpointReq == EndpointCreateRequest(plan)
         IN  IF LookupFailed(orgStatus)
             THEN Apply(Failed("Create", FALSE, <<orgCall>>, plan, NoData))
             ELSE \E status \in HttpStatuses :
               LET mutCall == Call("POST /api/v2/notificationEndpoints", status)
               IN  IF status = TransportError \/ status # StatusCreated
                   THEN Apply(Failed("Create", FALSE, <<orgCall, mutCall>>, plan, endpointReq))
                   ELSE \E body \in EndpointBodies :
                     IF ~body.json
                     THEN Apply(Failed("Create", FALSE, <<orgCall, mutCall>>, plan, endpointReq))
                     ELSE LET endpoint == body.rec
                              data == EndpointCreateState(plan, org, endpoint)
                          IN  Apply(Outcome(Present(data), "Create", FALSE, FALSE,
                                            <<orgCall, mutCall>>, plan, endpointReq,
                                            endpoint))

EndpointRead ==
    /\ kind = "endpoint" /\ stored.exists
    /\ \E status \in HttpStatuses :
         LET getCall == Call("GET /api/v2/notificationEndpoints/:id", status)
             req == [Id |-> ValueString(stored.doc.id)]
         IN  IF status = TransportError
             THEN Apply(Failed("Read", FALSE, <<getCall>>, NoData, req))
             ELSE IF status = StatusNotFound
             THEN Apply(Outcome(Absent(NullEndpoint), "Read", FALSE, TRUE, <<getCall>>,
                                NoData, req, NoData))
             ELSE IF status # StatusOK
             THEN Apply(Failed("Read", FALSE, <<getCall>>, NoData, req))
             ELSE \E body \in EndpointBodies :
               IF ~body.json
               THEN Apply(Failed("Read", FALSE, <<getCall>>, NoData, req))
               ELSE LET endpoint == body.rec
                        data == EndpointReadState(stored.doc, endpoint)
                    IN  Apply(Outcome(Present(data), "Read", FALSE, FALSE,
                                      <<getCall>>, NoData, req, endpoint))

EndpointUpdate ==
    /\ kind = "endpoint" /\ stored.exists
    /\ \E plan \in EndpointPlans, orgStatus \in LookupStatuses :
         LET orgCall == Call("FindOrganizationByName", orgStatus)
             endpointReq == EndpointUpdateRequest(plan)
         IN  IF LookupFailed(orgStatus)
             THEN Apply(Failed("Update", FALSE, <<orgCall>>, plan, NoData))
             ELSE \E status \in HttpStatuses :
               LET mutCall == Call("PATCH /api/v2/notificationEndpoints/:id", status)
               IN  IF status = TransportError \/ status # StatusOK
                   THEN Apply(Failed("Update", FALSE, <<orgCall, mutCall>>, plan, endpointReq))
                   ELSE \E body \in EndpointBodies :
                     IF ~body.json
                     THEN Apply(Failed("Update", FALSE, <<orgCall, mutCall>>, plan, endpointReq))
                     ELSE LET endpoint == body.rec
                              data == EndpointUpdateState(plan, endpoint)
                          IN  Apply(Outcome(Present(data), "Update", FALSE, FALSE,
                                            <<orgCall, mutCall>>, plan, endpointReq,
                                            endpoint))

\* The statuses a raw-HTTP Delete takes for success:
\* `StatusCode != http.StatusNoContent && StatusCode != http.StatusNotFound`
\* is the failure test.
DeleteAcceptedAny2xx(status) ==
    (status >= 200 /\ status < 300) \/ status = StatusNotFound

DeleteAccepted(status) == status = StatusNoContent \/ status = StatusNotFound

EndpointDelete ==
    /\ kind = "endpoint" /\ stored.exists
    /\ \E status \in HttpStatuses :
         LET delCall == Call("DELETE /api/v2/notificationEndpoints/:id", status)
             req == [Id |-> ValueString(stored.doc.id)]
         IN  IF status = TransportError
             THEN Apply(Failed("Delete", FALSE, <<delCall>>, NoData, req))
             ELSE IF ~DeleteAccepted(status)
             THEN Apply(Failed("Delete", FALSE, <<delCall>>, NoData, req))
             ELSE Apply(Outcome(Absent(NullEndpoint), "Delete", FALSE, FALSE,
                                <<delCall>>, NoData, req, NoData))

\* resource.ImportStatePassthroughID(ctx, path.Root("id"), req, resp)
EndpointImportState ==
    /\ kind = "endpoint" /\ ~stored.exists
    /\ \E id \in {"id1"} :
         Apply(Outcome(ImportState(NullEndpoint, id), "Import", FALSE, FALSE, <<>>,
                       NoData, NoData, NoData))

(***************************************************************************)
(* NotificationRule                                                        *)
(***************************************************************************)
NullRule ==
    [id |-> StringNull, name |-> StringNull, org |-> StringNull,
     description |-> StringNull, status |-> StringNull, type |-> StringNull,
     endpoint_id |-> StringNull, every |-> StringNull, offset |-> StringNull,
     message_template |-> StringNull, status_rules |-> <<>>, tag_rules |-> <<>>]

StatusRuleModel(cur, prev) == [current_level |-> cur, previous_level |-> prev]
TagRuleModel(key, val, op) ==
    [key |-> StringValue(key), value |-> StringValue(val), operator |-> StringValue(op)]

\* Declared (message_template, status_rules, tag_rules): none, or all set.
RuleOptions ==
    {[message_template |-> StringNull, status_rules |-> <<>>, tag_rules |-> <<>>],
     [message_template |-> StringValue("msg"),
      status_rules |-> <<StatusRuleModel(StringValue("CRIT"), StringNull),
                         StatusRuleModel(StringValue("OK"), StringValue("CRIT"))>>,
      tag_rules |-> <<TagRuleModel("host", "a", "equal")>>]}

RulePlans ==
    {[id |-> StringUnknown, name |-> StringValue(n), org |-> o,
      description |-> StringNull, status |-> StringValue("active"),
      type |-> StringValue("http"), endpoint_id |-> StringValue("ep1"),
      every |-> StringValue("1m"), offset |-> StringValue("0s"),
      message_template |-> opt.message_template,
      status_rules |-> opt.status_rules, tag_rules |-> opt.tag_rules] :
        n \in {"r1", "r2"}, o \in OrgRefs, opt \in RuleOptions}

StatusRule(cur, prev) == [CurrentLevel |-> cur, PreviousLevel |-> prev]
TagRule(key, val, op) == [Key |-> key, Value |-> val, Operator |-> op]

\* NotificationRuleResponse records the remote may answer with.
RuleResponses ==
    {[ID |-> id, Name |-> "r1", Description |-> Nil, Status |-> "active",
      Type |-> "http", EndpointID |-> "ep1",
      Every |-> IF rl[1] = <<>> THEN Nil ELSE Ptr("5m"), Offset |-> Nil,
      MessageTemplate |-> Nil, StatusRules |-> rl[1], TagRules |-> rl[2],
      OrgID |-> OrgId] :
        id \in {"id1", ""},
        rl \in {<<<<>>, <<>>>>,
                <<<<StatusRule("OK", "CRIT"), StatusRule("CRIT", "")>>,
                  <<TagRule("host", "b", "notEqual")>>>>}}

RuleBodies == {BadBody} \cup {JsonBody(r) : r \in RuleResponses}

\* The authenticated user the remote reports (*currentUser.Id).
OwnerId == "uid1"

RuleCreateRequest(data) ==
    [Name |-> ValueString(data.name), Description |-> Nil,
     Status |-> ValueString(data.status), Type |-> ValueString(data.type),
     EndpointID |-> ValueString(data.endpoint_id), OwnerID |-> OwnerId,
     Every |-> ValueString(data.every), Offset |-> Ptr(ValueString(data.offset)),
     MessageTemplate |-> Nil, StatusRules |-> <<>>, TagRules |-> <<>>,
     OrgID |-> OrgId]

RuleUpdateRequestWithoutRules(data) ==
    [ID |-> ValueString(data.id)] @@ RuleCreateRequest(data)

RuleUpdateRequest(data) ==
    [ID |-> ValueString(data.id),
     Name |-> ValueString(data.name), Description |-> OptPtr(data.description),
     Status |-> ValueString(data.status), Type |-> ValueString(data.type),
     EndpointID |-> ValueString(data.endpoint_id), OwnerID |-> OwnerId,
     Every |-> ValueString(data.every), Offset |-> Ptr(ValueString(data.offset)),
     MessageTemplate |-> OptPtr(data.message_template),
     StatusRules |->
         [i \in 1..Len(data.status_rules) |->
            LET rule == data.status_rules[i]
            IN  StatusRule(ValueString(rule.current_level),
                           IF ~IsNull(rule.previous_level)
                           THEN ValueString(rule.previous_level) ELSE "")],
     TagRules |->
         [i \in 1..Len(data.tag_rules) |->
            LET rule == data.tag_rules[i]
            IN  TagRule(ValueString(rule.key), ValueString(rule.value),
                        ValueString(rule.operator))],
     OrgID |-> OrgId]

RuleCreate ==
    /\ kind = "rule" /\ ~stored.exists
    /\ \E plan \in RulePlans, orgStatus \in LookupStatuses :
         LET org == OrgNameOf(plan)
             orgCall == Call("FindOrganizationByName", orgStatus)
         IN  IF LookupFailed(orgStatus)
             THEN Apply(Failed("Create", FALSE, <<orgCall>>, plan, NoData))
             ELSE \E meStatus \in LookupStatuses :
               LET meCall == Call("Me", meStatus)
                   ruleReq == RuleCreateRequest(plan)
               IN  IF LookupFailed(meStatus)
                   THEN Apply(Failed("Create", FALSE, <<orgCall, meCall>>, plan, NoData))
                   ELSE \E status \in HttpStatuses :
                     LET mutCall == Call("POST /api/v2/notificationRules", status)
                         calls == <<orgCall, meCall, mutCall>>
                     IN  IF status = TransportError \/ status # StatusCreated
                         THEN Apply(Failed("Create", FALSE, calls, plan, ruleReq))
                         ELSE \E body \in RuleBodies :
                           IF ~body.json
                           THEN Apply(Failed("Create", FALSE, calls, plan, ruleReq))
                           ELSE LET rule == body.rec
                                    data == [plan EXCEPT
                                               !.id = StringValue(rule.ID),
                                               !.org = StringValue(org),
                                               !.status = StringValue(rule.Status),
                                               !.type = StringValue(rule.Type)]
                                IN  Apply(Outcome(Present(data), "Create", FALSE,
                                                  FALSE, calls, plan, ruleReq, rule))

RuleRead ==
    /\ kind = "rule" /\ stored.exists
    /\ \E status \in HttpStatuses :
         LET getCall == Call("GET /api/v2/notificationRules/:id", status)
             req == [Id |-> ValueString(stored.doc.id)]
         IN  IF status = TransportError
             THEN Apply(Failed("Read", FALSE, <<getCall>>, NoData, req))
             ELSE IF status = StatusNotFound
             THEN Apply(Outcome(Absent(NullRule), "Read", FALSE, TRUE, <<getCall>>,
                                NoData, req, NoData))
             ELSE IF status # StatusOK
             THEN Apply(Failed("Read", FALSE, <<getCall>>, NoData, req))
             ELSE \E body \in RuleBodies :
               IF ~body.json
               THEN Apply(Failed("Read", FALSE, <<getCall>>, NoData, req))
               ELSE LET rule == body.rec
                        data == [stored.doc EXCEPT
                                   !.id = StringValue(rule.ID),
                                   !.name = StringValue(rule.Name),
                                   !.description =
                                       IF ~IsNil(rule.Description)
                                       THEN StringValue(Deref(rule.Description))
                                       ELSE @,
                                   !.status = StringValue(rule.Status),
                                   !.type = StringValue(rule.Type),
                                   !.endpoint_id = StringValue(rule.EndpointID),
                                   !.every = IF ~IsNil(rule.Every)
                                             THEN StringValue(Deref(rule.Every)) ELSE @,
                                   !.offset = IF ~IsNil(rule.Offset)
                                              THEN StringValue(Deref(rule.Offset))
                                              ELSE @,
                                   !.message_template =
                                       IF ~IsNil(rule.MessageTemplate)
                                       THEN StringValue(Deref(rule.MessageTemplate))
                                       ELSE @,
                                   !.status_rules =
                                       IF Len(rule.StatusRules) > 0
                                       THEN [i \in 1..Len(rule.StatusRules) |->
                                               LET sr == rule.StatusRules[i]
                                               IN  StatusRuleModel(
                                                     StringValue(sr.CurrentLevel),
                                                     IF sr.PreviousLevel # ""
                                                     THEN StringValue(sr.PreviousLevel)
                                                     ELSE StringNull)]
                                       ELSE @,
                                   !.tag_rules =
                                       IF Len(rule.TagRules) > 0
                                       THEN [i \in 1..Len(rule.TagRules) |->
                                               LET tr == rule.TagRules[i]
                                               IN  TagRuleModel(tr.Key, tr.Value,
                                                                tr.Operator)]
                                       ELSE @]
                    IN  Apply(Outcome(Present(data), "Read", FALSE, FALSE,
                                      <<getCall>>, NoData, req, rule))

\* `data.ID = state.ID`: the plan with the ID of the current state.
RuleUpdateDataFromPlan(plan, state) == plan

RuleUpdateData(plan, state) == [plan EXCEPT !.id = state.id]

RuleUpdate ==
    /\ kind = "rule" /\ stored.exists
    /\ \E plan \in RulePlans :
         LET state == stored.doc
         IN  IF IsNull(state.id) \/ ValueString(state.id) = ""
             THEN Apply(Failed("Update", FALSE, <<>>, plan, NoData))
             ELSE \E orgStatus \in LookupStatuses :
               LET data0 == RuleUpdateData(plan, state)
                   org == OrgNameOf(data0)
                   orgCall == Call("FindOrganizationByName", orgStatus)
               IN  IF LookupFailed(orgStatus)
                   THEN Apply(Failed("Update", FALSE, <<orgCall>>, plan, NoData))
                   ELSE \E meStatus \in LookupStatuses :
                     LET meCall == Call("Me", meStatus)
                         ruleReq == RuleUpdateRequest(data0)
                     IN  IF LookupFailed(meStatus)
                         THEN Apply(Failed("Update", FALSE, <<orgCall, meCall>>, plan, NoData))
                         ELSE \E status \in HttpStatuses :
                           LET mutCall ==
                                   Call("PUT /api/v2/notificationRules/:id", status)
                               calls == <<orgCall, meCall, mutCall>>
                           IN  IF status = TransportError \/ status # StatusOK
                               THEN Apply(Failed("Update", FALSE, calls, plan, ruleReq))
                               ELSE \E body \in RuleBodies :
                                 IF ~body.json
                                 THEN Apply(Failed("Update", FALSE, calls, plan, ruleReq))
                                 ELSE LET rule == body.rec
                                          data ==
                                            [data0 EXCEPT
                                               !.name = StringValue(rule.Name),
                                               !.status = StringValue(rule.Status),
                                               !.type = StringValue(rule.Type),
                                               !.org = StringValue(org),
                                               !.every =
                                                   IF ~IsNil(rule.Every)
                                                   THEN StringValue(Deref(rule.Every))
                                                   ELSE @]
                                      IN  Apply(Outcome(Present(data), "Update",
                                                        FALSE, FALSE, calls, plan,
                                                        ruleReq, rule))

RuleDelete ==
    /\ kind = "rule" /\ stored.exists
    /\ \E status \in HttpStatuses :
         LET delCall == Call("DELETE /api/v2/notificationRules/:id", status)
             req == [Id |-> ValueString(stored.doc.id)]
         IN  IF status = TransportError
             THEN Apply(Failed("Delete", FALSE, <<delCall>>, NoData, req))
             ELSE IF ~DeleteAccepted(status)
             THEN Apply(Failed("Delete", FALSE, <<delCall>>, NoData, req))
             ELSE Apply(Outcome(Absent(NullRule), "Delete", FALSE, FALSE,
                                <<delCall>>, NoData, req, NoData))

RuleImportState ==
    /\ kind = "rule" /\ ~stored.exists
    /\ \E id \in {"id1"} :
         Apply(Outcome(ImportState(NullRule, id), "Import", FALSE, FALSE, <<>>,
                       NoData, NoData, NoData))

(***************************************************************************)
(* Provider configuration                                                  *)
(***************************************************************************)
\* Declared provider blocks (InfluxDBProviderModel): each attribute absent,
\* declared empty or declared.
ProviderConfigs ==
    [url : {StringNull, StringValue(""), StringValue("http://cfg")},
     token : {StringNull, StringValue(""), StringValue("cfgtok")},
     org : {StringNull, StringValue("cfgorg")},
     bucket : {StringNull}]

\* Environments: INFLUXDB_URL, INFLUXDB_TOKEN, INFLUXDB_ORG, INFLUXDB_BUCKET,
\* each unset (os.Getenv gives "") or set.
Environments ==
    [INFLUXDB_URL : {"", "http://env"}, INFLUXDB_TOKEN : {"", "envtok"},
     INFLUXDB_ORG : {"", ProviderOrg}, INFLUXDB_BUCKET : {""}]

\* influxdb2.NewClient(url, token)
NewClient(url, token) == [url |-> url, token |-> token]

Unconfigured(data, env) ==
    [config |-> data, env |-> env, configured |-> FALSE, err |-> FALSE,
     DataSourceData |-> Nil, ResourceData |-> Nil]

\* InfluxDBProvider.Configure: what the response carries for a declared
\* configuration and an environment.
ProviderConfigureEnvFirst(data, env) ==
    LET url == IF env.INFLUXDB_URL # "" THEN env.INFLUXDB_URL
               ELSE ValueString(data.url)
        token == IF env.INFLUXDB_TOKEN # "" THEN env.INFLUXDB_TOKEN
                 ELSE ValueString(data.token)
        org == IF ~IsNull(data.org) THEN ValueString(data.org) ELSE env.INFLUXDB_ORG
        bucket == IF ~IsNull(data.bucket) THEN ValueString(data.bucket)
                  ELSE env.INFLUXDB_BUCKET
        providerData == [Client |-> NewClient(url, token), Org |-> org,
                         Bucket |-> bucket]
    IN  IF url = "" \/ token = ""
        THEN [Unconfigured(data, env) EXCEPT !.configured = TRUE, !.err = TRUE]
        ELSE [Unconfigured(data, env) EXCEPT
                !.configured = TRUE,
                !.DataSourceData = Ptr(providerData),
                !.ResourceData = Ptr(providerData)]

ProviderConfigure(data, env) ==
    LET url == IF ~IsNull(data.url) THEN ValueString(data.url) ELSE env.INFLUXDB_URL
        token == IF ~IsNull(data.token) THEN ValueString(data.token)
                 ELSE env.INFLUXDB_TOKEN
        org == IF ~IsNull(data.org) THEN ValueString(data.org) ELSE env.INFLUXDB_ORG
        bucket == IF ~IsNull(data.bucket) THEN ValueString(data.bucket)
                  ELSE env.INFLUXDB_BUCKET
        providerData == [Client |-> NewClient(url, token), Org |-> org,
                         Bucket |-> bucket]
    IN  IF url = "" \/ token = ""
        THEN [Unconfigured(data, env) EXCEPT !.configured = TRUE, !.err = TRUE]
        ELSE [Unconfigured(data, env) EXCEPT
                !.configured = TRUE,
                !.DataSourceData = Ptr(providerData),
                !.ResourceData = Ptr(providerData)]

Configure ==
    /\ ~provider.configured
    /\ provider' = ProviderConfigure(provider.config, provider.env)
    /\ UNCHANGED <<kind, stored, last, reconciler, instances>>

\* The provider the resource handlers run under: configured from the
\* environment, with ProviderOrg as its default organization.
ConfiguredProvider ==
    ProviderConfigure(
        [url |-> StringNull, token |-> StringNull, org |-> StringNull,
         bucket |-> StringNull],
        [INFLUXDB_URL |-> "http://env", INFLUXDB_TOKEN |-> "envtok",
         INFLUXDB_ORG |-> ProviderOrg, INFLUXDB_BUCKET |-> ""])

(***************************************************************************)
(* Reconciler fields and interleaved handler calls                         *)
(***************************************************************************)
\* The resource instances whose handlers the runtime may run concurrently.
Instances == {1, 2}

\* BucketResource{client, org} before and after Configure.
NewBucketResource == [configured |-> FALSE, client |-> Nil, org |-> ""]

ConfiguredReconciler ==
    LET providerData == Deref(ConfiguredProvider.ResourceData)
    IN  [configured |-> TRUE, client |-> Ptr(providerData.Client),
         org |-> providerData.Org]

\* The call-local variables of a handler that is not running.
NoCall ==
    [pc |-> "idle", finished |-> FALSE, op |-> "None", data |-> NoData,
     prior |-> Absent(NullBucket), orgName |-> "", org |-> "", failed |-> FALSE,
     resp |-> NoData]

IdleInstances == [i \in Instances |-> [state |-> Absent(NullBucket), call |-> NoCall]]

NullDoc(kd) ==
    CASE kd = "task" -> NullTask
      [] kd = "bucket" -> NullBucket
      [] kd = "check" -> NullCheck
      [] kd = "endpoint" -> NullEndpoint
      [] kd = "rule" -> NullRule

Init ==
    /\ kind \in Kinds
    /\ stored = Absent(NullDoc(kind))
    /\ last = [op |-> "None", err |-> FALSE, warn |-> FALSE, calls |-> <<>>,
               plan |-> NoData, req |-> NoData, resp |-> NoData]
    /\ provider = ConfiguredProvider
    /\ reconciler = ConfiguredReconciler
    /\ instances = IdleInstances

Next ==
    \/ TaskCreate
    \/ TaskRead
    \/ TaskUpdate
    \/ TaskDelete
    \/ TaskImportState
    \/ BucketCreate
    \/ BucketRead
    \/ BucketUpdate
    \/ BucketDelete
    \/ BucketImportState
    \/ CheckCreate
    \/ CheckRead
    \/ CheckUpdate
    \/ CheckDelete
    \/ CheckImportState
    \/ EndpointCreate
    \/ EndpointRead
    \/ EndpointUpdate
    \/ EndpointDelete
    \/ EndpointImportState
    \/ RuleCreate
    \/ RuleRead
    \/ RuleUpdate
    \/ RuleDelete
    \/ RuleImportState

Spec == Init /\ [][Next]_vars

\* The provider alone: any declared configuration under any environment,
\* configured once, before any resource exists.
InitProvider ==
    /\ kind \in Kinds
    /\ stored = Absent(NullDoc(kind))
    /\ last = [op |-> "None", err |-> FALSE, warn |-> FALSE, calls |-> <<>>,
               plan |-> NoData, req |-> NoData, resp |-> NoData]
    /\ \E data \in ProviderConfigs, env \in Environments :
           provider = Unconfigured(data, env)
    /\ reconciler = ConfiguredReconciler
    /\ instances = IdleInstances

NextProvider == Configure

SpecProvider == InitProvider /\ [][NextProvider]_vars

(***************************************************************************)
(* Handlers of the Bucket reconciler run step by step on two resource      *)
(* instances, so that the steps of two calls interleave.  A call keeps     *)
(* what it read in call-local variables (instances[i].call) and writes     *)
(* its result into its own instance's state.                               *)
(***************************************************************************)
ConcurrentPlans ==
    {plan \in BucketPlans :
        /\ plan.description = StringNull
        /\ plan.retention_seconds = Int64Value(604800)}

ConcurrentResponses ==
    {b \in BucketResponses :
        IsNil(b.Description) /\ Len(b.RetentionRules) <= 1
            /\ b.RetentionRules # <<[EverySeconds |-> 0]>>}

\* BucketResource.Configure: a nil ProviderData is a no-op, otherwise the
\* client and the default organization are copied into the fields.
ResourceConfigure ==
    /\ ~reconciler.configured
    /\ reconciler' =
         IF IsNil(provider.ResourceData) THEN reconciler
         ELSE [configured |-> TRUE,
               client |-> Ptr(Deref(provider.ResourceData).Client),
               org |-> Deref(provider.ResourceData).Org]
    /\ UNCHANGED <<kind, stored, last, provider, instances>>

\* `orgName := resource.org; if !data.Org.IsNull() { orgName = ... }`:
\* the organization goes into a local, the fields are left as they are.
OrgWrittenToField(fields, data) ==
    LET orgName == IF ~IsNull(data.org) THEN ValueString(data.org) ELSE fields.org
    IN  [orgName |-> orgName, fields |-> [fields EXCEPT !.org = orgName]]

OrgLocal(fields, data) ==
    [orgName |-> IF ~IsNull(data.org) THEN ValueString(data.org) ELSE fields.org,
     fields |-> fields]

SetCall(i, call) ==
    /\ instances' = [instances EXCEPT ![i].call = call]
    /\ UNCHANGED <<kind, stored, last, provider, reconciler>>

\* A handler starts: the runtime passes the plan and the prior state.
Begin(i) ==
    /\ reconciler.configured /\ instances[i].call.pc = "idle"
    /\ \E op \in {"Create", "Read", "Update", "Delete"} :
         /\ (op = "Create") = ~instances[i].state.exists
         /\ \E plan \in ConcurrentPlans :
              SetCall(i, [NoCall EXCEPT
                            !.pc = IF op = "Create" THEN "org" ELSE "call",
                            !.op = op,
                            !.data = IF op \in {"Create", "Update"} THEN plan
                                     ELSE instances[i].state.doc,
                            !.prior = instances[i].state])

\* Create picks the organization and looks it up.
ResolveOrg(i) ==
    /\ instances[i].call.pc = "org"
    /\ LET r == OrgLocal(reconciler, instances[i].call.data)
       IN  /\ reconciler' = r.fields
           /\ \E orgStatus \in LookupStatuses :
                instances' =
                  [instances EXCEPT
                     ![i].call =
                        IF LookupFailed(orgStatus)
                        THEN [@ EXCEPT !.pc = "idle", !.finished = TRUE,
                                       !.failed = TRUE, !.orgName = r.orgName]
                        ELSE [@ EXCEPT !.pc = "call", !.orgName = r.orgName]]
    /\ UNCHANGED <<kind, stored, last, provider>>

\* The remote call of the handler (for Read, with the lookup of the
\* organization's name that follows it).
RemoteCall(i) ==
    /\ instances[i].call.pc = "call"
    /\ \E status \in MutationStatuses :
         IF SdkErr(status)
         THEN SetCall(i, [instances[i].call EXCEPT
                            !.pc = "idle", !.finished = TRUE, !.failed = TRUE])
         ELSE \E bucket \in ConcurrentResponses, org \in OrgNames :
                SetCall(i, [instances[i].call EXCEPT
                              !.pc = "set", !.resp = bucket, !.org = org])

\* What the handler writes with resp.State.Set / RemoveResource.
HandlerState(call) ==
    CASE call.op = "Create" ->
           Present(BucketCreateState(call.data, call.orgName, call.resp))
      [] call.op = "Read" ->
           Present(BucketReadState(call.data, call.org, call.resp))
      [] call.op = "Update" -> Present(BucketUpdateState(call.data, call.resp))
      [] call.op = "Delete" -> Absent(NullBucket)

SetState(i) ==
    /\ instances[i].call.pc = "set"
    /\ instances' =
         [instances EXCEPT
            ![i].state = HandlerState(instances[i].call),
            ![i].call = [@ EXCEPT !.pc = "idle", !.finished = TRUE]]
    /\ UNCHANGED <<kind, stored, last, provider, reconciler>>

Import(i) ==
    /\ reconciler.configured /\ instances[i].call.pc = "idle"
    /\ ~instances[i].state.exists
    /\ instances' =
         [instances EXCEPT
            ![i].state = ImportState(NullBucket, "id1"),
            ![i].call = [NoCall EXCEPT !.finished = TRUE, !.op = "Import",
                                       !.prior = instances[i].state]]
    /\ UNCHANGED <<kind, stored, last, provider, reconciler>>

InitConcurrent ==
    /\ kind = "bucket"
    /\ stored = Absent(NullBucket)
    /\ last = [op |-> "None", err |-> FALSE, warn |-> FALSE, calls |-> <<>>,
               plan |-> NoData, req |-> NoData, resp |-> NoData]
    /\ provider = ConfiguredProvider
    /\ reconciler = NewBucketResource
    /\ instances = IdleInstances

NextConcurrent ==
    \/ ResourceConfigure
    \/ \E i \in Instances : Begin(i)
    \/ \E i \in Instances : ResolveOrg(i)
    \/ \E i \in Instances : RemoteCall(i)
    \/ \E i \in Instances : SetState(i)
    \/ \E i \in Instances : Import(i)

SpecConcurrent == InitConcurrent /\ [][NextConcurrent]_vars

(***************************************************************************)
(* Properties                                                              *)
(***************************************************************************)
hasEvery(data) == ~IsNull(data.every) /\ ValueString(data.every) # ""
hasCron(data) == ~IsNull(data.cron) /\ ValueString(data.cron) # ""
IsTaskMutation(op) == kind = "task" /\ op \in {"Create", "Update"}

\* C1: a Task Create or Update goes on to the remote only when exactly one
\* of every and cron is non-empty; with both or neither the call reports an
\* error, makes no remote call and leaves the stored state as it was.
C1_ScheduleStep ==
    IsTaskMutation(last'.op) =>
        IF hasEvery(last'.plan) # hasCron(last'.plan)
        THEN last'.calls # <<>>
        ELSE last'.err /\ last'.calls = <<>> /\ stored' = stored
C1_ExactlyOneSchedule == [][C1_ScheduleStep]_vars

\* A Task Update declaring both every and cron was rejected.
C1_Witness ==
    /\ IsTaskMutation(last.op) /\ last.op = "Update"
    /\ hasEvery(last.plan) /\ hasCron(last.plan)
    /\ last.err /\ last.calls = <<>> /\ stored.exists

\* C2: after a successful Task Create, a Read leaves the stored created_at
\* as the Create wrote it, whatever creation time the remote reports.
C2_ReadStep ==
    (kind = "task" /\ last.op = "Create" /\ ~last.err /\ last'.op = "Read"
        /\ stored'.exists)
        => stored'.doc.created_at = stored.doc.created_at
C2_ReadKeepsCreatedAt == [][C2_ReadStep]_vars

\* C3: a Task Read leaves the stored updated_at unchanged, and a successful
\* Update stores the update time of the remote's Update response.
C3_UpdatedAtStep ==
    kind = "task" =>
        /\ (last'.op = "Read" /\ stored'.exists)
               => stored'.doc.updated_at = stored.doc.updated_at
        /\ (last'.op = "Update" /\ ~last'.err /\ ~IsNil(last'.resp.UpdatedAt))
               => stored'.doc.updated_at
                      = StringValue(FormatTime(Deref(last'.resp.UpdatedAt)))
C3_UpdatedAtOnlyByUpdate == [][C3_UpdatedAtStep]_vars

\* The option-task preamble of a query text and its removal: the preamble
\* runs from `option task =` through the brace that closes the one opening
\* after it, counting nested braces; the text kept is what follows, trimmed.
IndexFrom(f, i, tok) ==
    IF \E j \in i..Len(f) : f[j] = tok
    THEN CHOOSE j \in i..Len(f) : f[j] = tok /\ \A h \in i..(j - 1) : f[h] # tok
    ELSE 0

RECURSIVE MatchingBrace(_, _, _)
MatchingBrace(f, i, depth) ==
    IF i > Len(f) THEN 0
    ELSE IF f[i] = LB THEN MatchingBrace(f, i + 1, depth + 1)
    ELSE IF f[i] = RB
         THEN IF depth = 1 THEN i ELSE MatchingBrace(f, i + 1, depth - 1)
    ELSE MatchingBrace(f, i + 1, depth)

RECURSIVE TrimSpace(_)
TrimSpace(f) ==
    IF f = <<>> THEN f
    ELSE IF Head(f) = WS THEN TrimSpace(Tail(f))
    ELSE IF f[Len(f)] = WS THEN TrimSpace(SubSeq(f, 1, Len(f) - 1))
    ELSE f

HasTaskOption(f) == \E i \in 1..Len(f) : f[i] = OPT

StripTaskOption(f) ==
    LET opt == IndexFrom(f, 1, OPT)
        open == IF opt = 0 THEN 0 ELSE IndexFrom(f, opt, LB)
        close == IF open = 0 THEN 0 ELSE MatchingBrace(f, open, 0)
    IN  IF close = 0 THEN f ELSE TrimSpace(SubSeq(f, close + 1, Len(f)))

\* C4: after a successful Task Create, Read or Update the stored flux holds
\* no option-task preamble: it is the remote's text with the preamble removed.
C4_StoredFluxWithoutPreamble ==
    (kind = "task" /\ last.op \in {"Create", "Read", "Update"} /\ ~last.err)
        => /\ ~HasTaskOption(stored.doc.flux.v)
           /\ stored.doc.flux = StringValue(StripTaskOption(last.resp.Flux))

IsNotFound(c) == c.status = StatusNotFound

\* C5: on every kind, a Delete whose remote call answers not-found ends
\* without an error.
C5_DeleteNotFoundSucceeds ==
    (last.op = "Delete" /\ IsNotFound(last.calls[Len(last.calls)])) => ~last.err

\* C6: on every kind, a Read whose fetch answers not-found removes the
\* resource from the stored state and reports no error.
C6_ReadNotFoundRemoves ==
    (last.op = "Read" /\ IsNotFound(last.calls[1]))
        => ~last.err /\ ~stored.exists

IsLookup(c) == c.api \in {"FindOrganizationByName", "Me"}
Succeeded(c) == c.status >= 200 /\ c.status < 300

\* C7: on every kind, a Create or Update that reports an error leaves the
\* stored state exactly as it was; the state changes only when every call
\* of the handler succeeded and the response was parsed.
C7_WriteStep ==
    last'.op \in {"Create", "Update"} =>
        /\ last'.err => stored' = stored
        /\ stored' # stored =>
               /\ ~last'.err
               /\ \A i \in 1..Len(last'.calls) : Succeeded(last'.calls[i])
               /\ last'.resp # NoData
C7_FailedMutationKeepsState == [][C7_WriteStep]_vars

\* A notification rule Update whose PUT answered 200 with an unreadable body:
\* the call failed after the remote mutation and the stored rule is still there.
C7_Witness ==
    /\ kind = "rule" /\ last.op = "Update" /\ last.err /\ stored.exists
    /\ Len(last.calls) = 3 /\ last.calls[3].status = StatusOK
    /\ last.resp = NoData

\* C8: in a Create or Update, a failed organization or current-user lookup
\* is the last call made and the call reports an error; every lookup precedes
\* the mutation call, which is made only after all of them succeeded.
C8_MutationAfterLookups ==
    last.op \in {"Create", "Update"} =>
        \A i \in 1..Len(last.calls) :
            IF IsLookup(last.calls[i])
            THEN last.calls[i].status # StatusOK => last.err /\ i = Len(last.calls)
            ELSE /\ i = Len(last.calls)
                 /\ \A j \in 1..(i - 1) :
                        IsLookup(last.calls[j]) /\ last.calls[j].status = StatusOK

\* A notification rule Create whose organization lookup succeeded and whose
\* current-user lookup failed: two calls, an error, nothing stored.
C8_Witness ==
    /\ kind = "rule" /\ last.op = "Create" /\ last.err /\ ~stored.exists
    /\ Len(last.calls) = 2 /\ last.calls[1].status = StatusOK
    /\ last.calls[2].api = "Me" /\ last.calls[2].status # StatusOK

\* C9: the Flux text a Task Create sends to the remote is the declared text
\* with any option-task preamble removed.
C9_CreateSendsStrippedFlux ==
    (kind = "task" /\ last.op = "Create" /\ last.req # NoData)
        => last.req.Flux = StripTaskOption(ValueString(last.plan.flux))

\* C10: when the remote's answer to a Task Create carries no update time,
\* the stored updated_at equals the stored created_at.
C10_UpdatedAtFallsBackToCreatedAt ==
    (kind = "task" /\ last.op = "Create" /\ ~last.err /\ IsNil(last.resp.UpdatedAt))
        => stored.doc.updated_at = stored.doc.created_at

InfiniteRetention(rs) == IsNull(rs) \/ ValueInt64(rs) = 0
NoRuleOrZero(rules) == rules \in {<<>>, <<[EverySeconds |-> 0]>>}

\* C11: a Bucket declared with retention_seconds 0 or absent is created with
\* stored retention_seconds 0, and a Read after that Create stores 0 again,
\* when the remote answers with no retention rule or with a rule of 0 seconds.
C11_InfiniteStep ==
    kind = "bucket" =>
        /\ (last'.op = "Create" /\ ~last'.err
              /\ InfiniteRetention(last'.plan.retention_seconds)
              /\ NoRuleOrZero(last'.resp.RetentionRules))
               => stored'.doc.retention_seconds = Int64Value(0)
        /\ (last.op = "Create" /\ ~last.err
              /\ InfiniteRetention(last.plan.retention_seconds)
              /\ last'.op = "Read" /\ ~last'.err
              /\ NoRuleOrZero(last'.resp.RetentionRules))
               => stored'.doc.retention_seconds = Int64Value(0)
C11_InfiniteRetentionRoundTrip == [][C11_InfiniteStep]_vars

\* A Bucket Read that was answered with no retention rule stored 0.
C11_Witness ==
    /\ kind = "bucket" /\ last.op = "Read" /\ ~last.err
    /\ last.resp.RetentionRules = <<>>
    /\ stored.doc.retention_seconds = Int64Value(0)

\* C12: after a successful Bucket Create the stored state holds the non-empty
\* id and the name of the response, the organization as the caller declared
\* it (the provider's default when none was declared), never the resolved
\* organization ID, and the retention of the response's first retention rule;
\* a declared retention is what the request carries.
C12_BucketCreateStored ==
    (kind = "bucket" /\ last.op = "Create" /\ ~last.err) =>
        /\ stored.exists
        /\ stored.doc.id = StringValue(Deref(last.resp.Id))
        /\ ValueString(stored.doc.id) # ""
        /\ stored.doc.name = StringValue(last.resp.Name)
        /\ stored.doc.name = last.plan.name
        /\ stored.doc.org = (IF IsNull(last.plan.org) THEN StringValue(ProviderOrg)
                             ELSE last.plan.org)
        /\ ValueString(stored.doc.org) # OrgId
        /\ Len(last.resp.RetentionRules) > 0 =>
               stored.doc.retention_seconds
                   = Int64Value(last.resp.RetentionRules[1].EverySeconds)
        /\ ~IsNull(last.plan.retention_seconds) =>
               last.req.RetentionRules
                   = <<[EverySeconds |-> ValueInt64(last.plan.retention_seconds)]>>

\* Bucket b1 declared with org1 and one week, answered with a one-week rule.
C12_Witness ==
    /\ kind = "bucket" /\ last.op = "Create" /\ ~last.err
    /\ last.plan.org = StringValue("org1")
    /\ last.plan.retention_seconds = Int64Value(604800)
    /\ stored.doc.name = StringValue("b1") /\ stored.doc.org = StringValue("org1")
    /\ stored.doc.retention_seconds = Int64Value(604800)
    /\ stored.doc.id = StringValue("id1")

\* C13: on every kind, a Read that follows a successful Create leaves the
\* stored organization equal to the reference the caller declared.
C13_OrgStep ==
    (last.op = "Create" /\ ~last.err /\ ~IsNull(last.plan.org)
        /\ last'.op = "Read" /\ ~last'.err /\ stored'.exists)
        => stored'.doc.org = last.plan.org
C13_OrgReferencePreserved == [][C13_OrgStep]_vars

\* A declared threshold and a threshold on the wire that carry the same
\* type, value, level and all_values (false when not declared).
SameThreshold(m, t) ==
    /\ t.Type = ValueString(m.type)
    /\ t.Value = ValueFloat64(m.value)
    /\ t.Level = ValueString(m.level)
    /\ t.AllValues = Ptr(ValueBool(m.all_values))

\* C14: a Check Create sends the declared thresholds one to one and in order
\* (all_values false when absent) and, on success, stores the thresholds of
\* the response in the response's order; when the response echoes the
\* request the stored list is the declared one.
C14_ThresholdsInOrder ==
    (kind = "check" /\ last.op = "Create" /\ last.req # NoData) =>
        /\ Len(last.req.Thresholds) = Len(last.plan.thresholds)
        /\ \A i \in 1..Len(last.plan.thresholds) :
               SameThreshold(last.plan.thresholds[i], last.req.Thresholds[i])
        /\ ~last.err =>
               /\ Len(stored.doc.thresholds) = Len(last.resp.Thresholds)
               /\ \A i \in 1..Len(last.resp.Thresholds) :
                      LET m == stored.doc.thresholds[i]
                          t == last.resp.Thresholds[i]
                      IN  /\ m.type = StringValue(t.Type)
                          /\ m.value = Float64Value(t.Value)
                          /\ m.level = StringValue(t.Level)
                          /\ m.all_values =
                                 BoolValue(IF IsNil(t.AllValues) THEN FALSE
                                           ELSE Deref(t.AllValues))
               /\ last.resp.Thresholds = last.req.Thresholds =>
                      /\ Len(stored.doc.thresholds) = Len(last.plan.thresholds)
                      /\ \A i \in 1..Len(last.plan.thresholds) :
                             LET m == stored.doc.thresholds[i]
                                 d == last.plan.thresholds[i]
                             IN  /\ m.type = d.type /\ m.value = d.value
                                 /\ m.level = d.level
                                 /\ m.all_values = BoolValue(ValueBool(d.all_values))

\* A Check created with two thresholds whose response echoed the request.
C14_Witness ==
    /\ kind = "check" /\ last.op = "Create" /\ ~last.err
    /\ Len(last.plan.thresholds) = 2
    /\ last.resp.Thresholds = last.req.Thresholds
    /\ Len(stored.doc.thresholds) = 2
    /\ stored.doc.thresholds[1].level = StringValue("WARN")
    /\ stored.doc.thresholds[2].level = StringValue("CRIT")

\* The desired rule agrees with the stored one in everything but the name.
OnlyNameDiffers(plan, state) ==
    /\ plan.status_rules = state.status_rules /\ plan.tag_rules = state.tag_rules
    /\ plan.offset = state.offset /\ plan.message_template = state.message_template
    /\ plan.description = state.description /\ plan.status = state.status
    /\ plan.type = state.type /\ plan.endpoint_id = state.endpoint_id
    /\ plan.every = state.every /\ StringValue(OrgNameOf(plan)) = state.org

\* C15: a NotificationRule Update of the name alone sends the caller's
\* status_rules, tag_rules and offset in the PUT request and, on success,
\* leaves the stored status_rules, tag_rules, offset and message_template
\* as they were stored before, whatever the response carries.
C15_RenameStep ==
    (kind = "rule" /\ last'.op = "Update" /\ last'.req # NoData
        /\ OnlyNameDiffers(last'.plan, stored.doc))
        => /\ Len(last'.req.StatusRules) = Len(last'.plan.status_rules)
           /\ \A i \in 1..Len(last'.plan.status_rules) :
                  /\ last'.req.StatusRules[i].CurrentLevel
                         = ValueString(last'.plan.status_rules[i].current_level)
                  /\ last'.req.StatusRules[i].PreviousLevel
                         = ValueString(last'.plan.status_rules[i].previous_level)
           /\ Len(last'.req.TagRules) = Len(last'.plan.tag_rules)
           /\ \A i \in 1..Len(last'.plan.tag_rules) :
                  /\ last'.req.TagRules[i].Key = ValueString(last'.plan.tag_rules[i].key)
                  /\ last'.req.TagRules[i].Value
                         = ValueString(last'.plan.tag_rules[i].value)
                  /\ last'.req.TagRules[i].Operator
                         = ValueString(last'.plan.tag_rules[i].operator)
           /\ last'.req.Offset = Ptr(ValueString(last'.plan.offset))
           /\ ~last'.err =>
                  /\ stored'.doc.status_rules = stored.doc.status_rules
                  /\ stored'.doc.tag_rules = stored.doc.tag_rules
                  /\ stored'.doc.offset = stored.doc.offset
                  /\ stored'.doc.message_template = stored.doc.message_template
C15_RenameKeepsRuleLists == [][C15_RenameStep]_vars

\* A rule declared under the name r2 with two status rules and a tag rule was
\* updated; the response carried other rule lists and the declared ones stayed.
C15_Witness ==
    /\ kind = "rule" /\ last.op = "Update" /\ ~last.err
    /\ last.plan.name = StringValue("r2") /\ last.resp.Name = "r1"
    /\ Len(last.plan.status_rules) = 2 /\ Len(last.req.StatusRules) = 2
    /\ last.resp.StatusRules # last.req.StatusRules
    /\ stored.doc.status_rules = last.plan.status_rules
    /\ stored.doc.tag_rules = last.plan.tag_rules

\* C16: a NotificationRule Create converts the declared status rules and tag
\* rules one to one, in the caller's order, into the create request.
C16_CreateConvertsRuleLists ==
    (kind = "rule" /\ last.op = "Create" /\ last.req # NoData) =>
        /\ Len(last.req.StatusRules) = Len(last.plan.status_rules)
        /\ \A i \in 1..Len(last.plan.status_rules) :
               /\ last.req.StatusRules[i].CurrentLevel
                      = ValueString(last.plan.status_rules[i].current_level)
               /\ last.req.StatusRules[i].PreviousLevel
                      = ValueString(last.plan.status_rules[i].previous_level)
        /\ Len(last.req.TagRules) = Len(last.plan.tag_rules)
        /\ \A i \in 1..Len(last.plan.tag_rules) :
               /\ last.req.TagRules[i].Key = ValueString(last.plan.tag_rules[i].key)
               /\ last.req.TagRules[i].Value = ValueString(last.plan.tag_rules[i].value)
               /\ last.req.TagRules[i].Operator
                      = ValueString(last.plan.tag_rules[i].operator)

\* Two endpoint responses that differ at most in token, username, password.
SameButSecrets(a, b) ==
    [a EXCEPT !.Token = Nil, !.Username = Nil, !.Password = Nil]
        = [b EXCEPT !.Token = Nil, !.Username = Nil, !.Password = Nil]

\* C17: the state a NotificationEndpoint Create, Read or Update stores is the
\* one it would store for any response that differs only in token, username
\* or password, and the stored token, username and password are the declared
\* ones (on Read, the ones stored before).
C17_SecretsStep ==
    (kind = "endpoint" /\ last'.op \in {"Create", "Read", "Update"} /\ ~last'.err
        /\ stored'.exists)
        => /\ \A e \in EndpointResponses :
                  SameButSecrets(e, last'.resp) =>
                      stored'.doc =
                          CASE last'.op = "Create" ->
                                   EndpointCreateState(last'.plan,
                                                       OrgNameOf(last'.plan), e)
                            [] last'.op = "Read" -> EndpointReadState(stored.doc, e)
                            [] last'.op = "Update" ->
                                   EndpointUpdateState(last'.plan, e)
           /\ LET declared == IF last'.op = "Read" THEN stored.doc ELSE last'.plan
              IN  /\ stored'.doc.token = declared.token
                  /\ stored'.doc.username = declared.username
                  /\ stored'.doc.password = declared.password
C17_SecretsWriteOnly == [][C17_SecretsStep]_vars

\* An endpoint declared with token tok was read while the remote reported
\* other secrets; the declared ones are still stored.
C17_Witness ==
    /\ kind = "endpoint" /\ last.op = "Read" /\ ~last.err /\ stored.exists
    /\ last.resp.Token = Ptr("remote-tok") /\ last.resp.Password = Ptr("remote-pw")
    /\ stored.doc.token = StringValue("tok") /\ stored.doc.password = StringValue("pw")

\* The value a setting resolves to: the declared one, else the environment's.
Resolved(declared, fromEnv) ==
    IF declared.k = "value" THEN declared.v ELSE fromEnv

\* C18: Configure resolves URL and token to the declared value when one is
\* declared and to the environment's otherwise; when either is empty it
\* reports an error and hands nothing to resources or data sources, and
\* otherwise hands both a context with a client for the resolved URL and token.
C18_ConfigureResolves ==
    provider.configured =>
        LET url == Resolved(provider.config.url, provider.env.INFLUXDB_URL)
            token == Resolved(provider.config.token, provider.env.INFLUXDB_TOKEN)
        IN  IF url = "" \/ token = ""
            THEN /\ provider.err
                 /\ IsNil(provider.ResourceData) /\ IsNil(provider.DataSourceData)
            ELSE /\ ~provider.err
                 /\ ~IsNil(provider.ResourceData) /\ ~IsNil(provider.DataSourceData)
                 /\ provider.ResourceData = provider.DataSourceData
                 /\ Deref(provider.ResourceData).Client.url = url
                 /\ Deref(provider.ResourceData).Client.token = token
                 /\ Deref(provider.ResourceData).Org
                        = Resolved(provider.config.org, provider.env.INFLUXDB_ORG)

\* A declared empty URL shadowed a usable environment URL: Configure failed.
C18_Witness ==
    /\ provider.configured /\ provider.err
    /\ provider.config.url = StringValue("") /\ provider.env.INFLUXDB_URL = "http://env"
    /\ provider.config.token = StringValue("cfgtok")
    /\ IsNil(provider.ResourceData)

\* C19: a Task Update that sends an update request has first fetched the
\* task by ID, the fetch preceding the update call.
C19_UpdateRereadsFirst ==
    (kind = "task" /\ last.op = "Update" /\ last.req # NoData)
        => \E i, j \in 1..Len(last.calls) :
              /\ i < j
              /\ last.calls[i].api = "GetTaskByID"
              /\ last.calls[j].api = "UpdateTask"

\* C20: a Check Update request carries what the Create request for the same
\* desired document carries (name, resolved organization ID, query text,
\* interval, kind, ordered thresholds), is addressed by a non-empty ID, and
\* takes status and offset from the desired document without defaults.
C20_UpdateSameShapeAsCreate ==
    (kind = "check" /\ last.op = "Update" /\ last.req # NoData)
        => LET created == CheckCreatePayload(last.plan)
           IN  /\ last.req.Name = created.Name
               /\ last.req.OrgID = created.OrgID
               /\ last.req.Query = created.Query
               /\ last.req.Every = created.Every
               /\ last.req.Type = created.Type
               /\ last.req.Thresholds = created.Thresholds
               /\ ~IsNil(last.req.ID) /\ Deref(last.req.ID) # ""
               /\ last.req.Status = ValueString(last.plan.status)
               /\ last.req.Offset = ValueString(last.plan.offset)

\* C21: a Check Create request carries status "active" when the desired
\* status is absent and offset "0s" when the desired offset is absent, and
\* the declared value whenever one is declared.
C21_CreateDefaults ==
    (kind = "check" /\ last.op = "Create" /\ last.req # NoData)
        => /\ last.req.Status = IF IsNull(last.plan.status) THEN "active"
                                ELSE last.plan.status.v
           /\ last.req.Offset = IF IsNull(last.plan.offset) THEN "0s"
                                ELSE last.plan.offset.v

\* A Create with neither status nor offset declared reached the remote.
C21_Witness ==
    /\ kind = "check" /\ last.op = "Create" /\ last.req # NoData
    /\ IsNull(last.plan.status) /\ IsNull(last.plan.offset)
    /\ last.req.Status = "active" /\ last.req.Offset = "0s"

\* C22: a Check Delete whose request met a transport failure or a status
\* outside 200..299 other than 404 reports an error, whatever the response
\* body contains.
C22_DeleteReportsNon404 ==
    (kind = "check" /\ last.op = "Delete" /\ Len(last.calls) = 1
        /\ last.calls[1].status # StatusNotFound
        /\ (last.calls[1].status = TransportError
              \/ last.calls[1].status < 200 \/ last.calls[1].status >= 300))
        => last.err

\* C23: a NotificationEndpoint or NotificationRule Delete that got an answer
\* succeeds, removing the resource from state, exactly when the status is
\* 204 or 404; any other status, other 2xx codes included, is an error and
\* leaves the resource in state.
C23_DeleteOnly204Or404 ==
    (kind \in {"endpoint", "rule"} /\ last.op = "Delete" /\ Len(last.calls) = 1
        /\ last.calls[1].status # TransportError)
        => /\ last.err <=> last.calls[1].status \notin {204, 404}
           /\ stored.exists <=> last.err

\* A rule Delete answered 200 failed.
C23_Witness ==
    /\ kind = "rule" /\ last.op = "Delete" /\ Len(last.calls) = 1
    /\ last.calls[1].status = StatusOK /\ last.err /\ stored.exists

\* C24: a NotificationEndpoint Create request carries status "active",
\* method "POST" and auth method "none" whatever the desired document
\* declares for them, and has no token, username, password or headers field.
C24_CreateFixedFields ==
    (kind = "endpoint" /\ last.op = "Create" /\ last.req # NoData)
        => /\ last.req.Status = "active"
           /\ last.req.Method = "POST"
           /\ last.req.AuthMethod = "none"
           /\ DOMAIN last.req \cap {"Token", "Username", "Password", "Headers"} = {}

\* A Create declaring status, method, auth_method, secrets and headers
\* reached the remote.
C24_Witness ==
    /\ kind = "endpoint" /\ last.op = "Create" /\ last.req # NoData
    /\ last.plan.status = StringValue("inactive")
    /\ last.plan.method = StringValue("PUT")
    /\ last.plan.auth_method = StringValue("bearer")
    /\ ~IsNull(last.plan.token) /\ last.plan.headers # MapNull
    /\ last.req.Status = "active"

\* C25: after a successful NotificationRule Read the stored status_rules and
\* tag_rules have the length of the response arrays and agree with them
\* element by element, an empty response array included.
C25_ReadRebuildsRuleLists ==
    (kind = "rule" /\ last.op = "Read" /\ ~last.err /\ stored.exists)
        => /\ Len(stored.doc.status_rules) = Len(last.resp.StatusRules)
           /\ \A i \in 1..Len(last.resp.StatusRules) :
                 /\ i <= Len(stored.doc.status_rules)
                 /\ stored.doc.status_rules[i].current_level
                        = StringValue(last.resp.StatusRules[i].CurrentLevel)
                 /\ ValueString(stored.doc.status_rules[i].previous_level)
                        = last.resp.StatusRules[i].PreviousLevel
           /\ Len(stored.doc.tag_rules) = Len(last.resp.TagRules)
           /\ \A i \in 1..Len(last.resp.TagRules) :
                 /\ i <= Len(stored.doc.tag_rules)
                 /\ stored.doc.tag_rules[i]
                        = TagRuleModel(last.resp.TagRules[i].Key,
                                       last.resp.TagRules[i].Value,
                                       last.resp.TagRules[i].Operator)

\* The PUT calls among the remote calls of the last handler.
PutCalls(calls) ==
    {i \in 1..Len(calls) : calls[i].api = "PUT /api/v2/notificationRules/:id"}

MissingId(state) == IsNull(state.id) \/ ValueString(state.id) = ""

C26_ExactlyOnePutStep ==
    (kind = "rule" /\ last'.op = "Update")
        => IF MissingId(stored.doc)
           THEN last'.err /\ last'.calls = <<>>
           ELSE /\ Cardinality(PutCalls(last'.calls)) = 1
                /\ last'.req # NoData
                /\ last'.req.ID = ValueString(stored.doc.id)

\* C26 as stated: a NotificationRule Update whose stored ID is null or empty
\* fails before any remote call, and every other Update issues exactly one
\* PUT, addressed by the stored ID.
C26_UpdateExactlyOnePut == [][C26_ExactlyOnePutStep]_vars

C26_StoredIdStep ==
    (kind = "rule" /\ last'.op = "Update")
        => IF MissingId(stored.doc)
           THEN last'.err /\ last'.calls = <<>>
           ELSE /\ Cardinality(PutCalls(last'.calls)) <= 1
                /\ \A i \in PutCalls(last'.calls) :
                      /\ i = 3
                      /\ last'.calls[1].api = "FindOrganizationByName"
                      /\ last'.calls[1].status = StatusOK
                      /\ last'.calls[2].api = "Me"
                      /\ last'.calls[2].status = StatusOK
                /\ (Len(last'.calls) >= 2 /\ last'.calls[1].status = StatusOK
                       /\ last'.calls[2].status = StatusOK)
                      => /\ Cardinality(PutCalls(last'.calls)) = 1
                         /\ last'.req # NoData
                         /\ last'.req.ID = ValueString(stored.doc.id)
                /\ stored'.doc.id = stored.doc.id

\* C26 (amended): a NotificationRule Update whose stored ID is null or empty
\* fails before any remote call; otherwise it issues no PUT when the
\* organization or user lookup fails and exactly one PUT, addressed by the
\* stored ID and not the plan's, once both lookups have succeeded.
C26_UpdateUsesStoredId == [][C26_StoredIdStep]_vars

\* An Update of a rule stored with ID "id1" sent its PUT for "id1", the
\* plan's id being unknown.
C26_Witness ==
    /\ kind = "rule" /\ last.op = "Update" /\ last.req # NoData
    /\ last.plan.id = StringUnknown /\ last.req.ID = "id1"
    /\ stored.doc.id = StringValue("id1")
    /\ Cardinality(PutCalls(last.calls)) = 1

C27_OrgStep ==
    (kind = "bucket" /\ last'.op = "Update" /\ last'.req # NoData)
        => /\ DOMAIN last'.req \cap {"OrgID", "Org"} = {}
           /\ ~last'.err => stored'.doc.org = stored.doc.org

\* C27: a Bucket Update request carries no organization, and after a
\* successful Update the stored org is the org stored before it.
C27_UpdateKeepsOrg == [][C27_OrgStep]_vars

\* The attributes of a document that a populated resource of its kind has:
\* name and org everywhere, and the kind's own required attributes.
Populated(kd, doc) ==
    /\ ~IsNull(doc.id) /\ ~IsNull(doc.name) /\ ~IsNull(doc.org)
    /\ kd = "task" => ~IsNull(doc.flux) /\ ~IsNull(doc.status)
    /\ kd = "bucket" => doc.retention_seconds # Int64Null
    /\ kd = "check" => ~IsNull(doc.query) /\ ~IsNull(doc.every) /\ ~IsNull(doc.type)
    /\ kd = "endpoint" => ~IsNull(doc.type) /\ ~IsNull(doc.url) /\ ~IsNull(doc.status)
    /\ kd = "rule" => ~IsNull(doc.type) /\ ~IsNull(doc.endpoint_id)
                         /\ ~IsNull(doc.status)

C28_ImportReadStep ==
    (last.op = "Import" /\ last'.op = "Read" /\ ~last'.err /\ stored'.exists)
        => Populated(kind, stored'.doc)

\* C28: for each of the five kinds, a successful Read right after an Import
\* leaves a stored document whose org and other attributes are set from the
\* remote record.
C28_ImportThenReadPopulates == [][C28_ImportReadStep]_vars

\* C29: no Bucket Create or Update request carries a retention rule with
\* negative seconds, and a stored retention_seconds is never negative.
C29_RetentionNonNegative ==
    kind = "bucket"
        => /\ (last.op \in {"Create", "Update"} /\ last.req # NoData)
                => \A i \in 1..Len(last.req.RetentionRules) :
                      last.req.RetentionRules[i].EverySeconds >= 0
           /\ (stored.exists /\ stored.doc.retention_seconds # Int64Null)
                => ValueInt64(stored.doc.retention_seconds) >= 0

\* What a call leaves as its instance's state when it runs alone on the
\* configured reconciler: its inputs and the remote's answers decide it.
SequentialState(call) ==
    IF call.failed THEN call.prior
    ELSE CASE call.op = "Create" ->
                Present(BucketCreateState(call.data, OrgNameOf(call.data), call.resp))
           [] call.op = "Read" ->
                Present(BucketReadState(call.prior.doc, call.org, call.resp))
           [] call.op = "Update" -> Present(BucketUpdateState(call.data, call.resp))
           [] call.op = "Delete" -> Absent(NullBucket)
           [] call.op = "Import" -> ImportState(NullBucket, "id1")

C30_IsolationStep ==
    /\ provider' = provider
    /\ reconciler' # reconciler => ~reconciler.configured
    /\ \A i \in Instances :
          instances'[i].call.finished
              => instances'[i].state = SequentialState(instances'[i].call)

====
